---------------------------- MODULE Spec2Model ----------------------------
(***************************************************************************)
(* A model of retro-adsb-radar (src/radar.py): the background refresh      *)
(* thread (AircraftTracker), the record parser (parse_aircraft), the       *)
(* render loop of main() and the caches it drives (OptimizedTextCache,     *)
(* CoordinateCache, StaticSurfaceCache, SortedAircraftManager).            *)
(*                                                                         *)
(* Conventions.                                                            *)
(*  - Python's None / an absent dict key is the empty sequence << >>, a    *)
(*    present value v is << v >>.                                          *)
(*  - Python strings that the code inspects (hex, flight) are sequences of *)
(*    one-character strings, so lower(), strip(), startswith() and [:8]    *)
(*    are computed, not assumed.                                           *)
(*  - Positions are integer offsets from the configured origin (LAT, LON), *)
(*    in arc units of one tenth of a nautical mile of great circle, and    *)
(*    lie on one of the two axes through the origin (lat = LAT or          *)
(*    lon = LON, origin on the equator as with the fallbacks 0.0/0.0).     *)
(*    On those axes the haversine distance is the absolute offset, so      *)
(*    distances are exact integers in tenths of a nautical mile.           *)
(*  - time.time() is the variable now, in whole seconds.                   *)
(***************************************************************************)
EXTENDS Integers, Sequences, FiniteSets, TLC

VARIABLES
    \* ---- AircraftTracker (shared with the render loop) ----
    aircraft,        \* self.aircraft: the live set, a list of Aircraft
    status,          \* self.status
    last_update,     \* self.last_update
    running,         \* self.running
    \* ---- the refresh thread (update_loop / fetch_data locals) ----
    pcR,             \* position of the refresh thread
    response,        \* << >> or << data['aircraft'] >> of the fetch in progress
    idx,             \* loop index of fetch_data's for loop
    aircraft_list,   \* fetch_data's local aircraft_list
    liveAtTick,      \* history: self.aircraft when the current tick began
    liveSrc,         \* history: << >> or << response >> the live set was parsed from
    \* ---- main(): the render loop ----
    pcM,             \* position of the render loop
    main_running,    \* main()'s local running
    radarSeen,       \* << >> or << the list handed to radar.draw in this frame >>
    \* ---- the clock ----
    now,
    \* ---- a call of parse_aircraft ----
    parse_data,      \* the raw record handed to parse_aircraft
    parse_result,    \* << >> before the call, << result >> after it
    \* ---- OptimizedTextCache ----
    enable_text_cache,  \* ENABLE_TEXT_CACHE
    text_cache,      \* self.cache: key -> surface
    access_order,    \* self.access_order
    max_size,        \* self.max_size
    text_last_clear, \* self._last_clear
    text_call,       \* history: the last render call, its key and what it did
    text_stamp,      \* history: per key, the calls that inserted and last accessed it
    text_calls,      \* history: number of render calls so far
    \* ---- CoordinateCache ----
    enable_coordinate_cache,  \* ENABLE_COORDINATE_CACHE
    coord_cache,     \* self.cache: aircraft_id -> position or None
    coord_last_update,  \* self.last_update: aircraft_id -> time
    coord_call,      \* history: the last get_screen_pos call and its result
    \* ---- SortedAircraftManager ----
    aircraft_dict,   \* self.aircraft_dict: hex_code -> Aircraft
    sorted_list,     \* self.sorted_list
    needs_resort,    \* self.needs_resort
    sort_call,       \* history: the last update_aircraft call and what it did
    slice_call,      \* history: the last get_sorted_aircraft call since then
    \* ---- StaticSurfaceCache ----
    enable_static_surface_cache,  \* ENABLE_STATIC_SURFACE_CACHE
    radar_static,    \* self.radar_static: << >> or << the surface >>
    needs_rebuild,   \* self.needs_rebuild
    static_call,     \* history: the last get_radar_static call and the calls so far
    \* ---- a call of batch_calculate_distances_bearings ----
    use_numpy_batch_ops,  \* USE_NUMPY_BATCH_OPS
    batch_positions, \* the aircraft_positions handed to the call
    batch_result     \* << >> before the call, << result >> after it

trackerVars == <<aircraft, status, last_update, running>>
refreshVars == <<pcR, response, idx, aircraft_list, liveAtTick, liveSrc>>
mainVars    == <<pcM, main_running, radarSeen>>
parseVars   == <<parse_data, parse_result>>
textVars    == <<enable_text_cache, text_cache, access_order, max_size,
                 text_last_clear, text_call, text_stamp, text_calls>>
coordVars   == <<enable_coordinate_cache, coord_cache, coord_last_update, coord_call>>
sortVars    == <<aircraft_dict, sorted_list, needs_resort, sort_call, slice_call>>
staticVars  == <<enable_static_surface_cache, radar_static, needs_rebuild, static_call>>
batchVars   == <<use_numpy_batch_ops, batch_positions, batch_result>>
cacheVars   == <<textVars, coordVars, sortVars, staticVars>>
vars        == <<trackerVars, refreshVars, mainVars, now, parseVars, batchVars,
                 cacheVars>>

--------------------------------------------------------------------------
(* Bounds of the model *)

\* longest 'aircraft' array a fetch returns
MaxFeed == 2
\* last value of the clock
MaxTime == 1

--------------------------------------------------------------------------
(* Configuration (config.ini fallbacks) *)

\* RADIUS_NM, in nautical miles
RADIUS_NM == 60
\* tenths of a nautical mile per nautical mile (the model's distance unit)
DistUnit == 10
\* MIL_PREFIX_LIST, fallback '7CF'
MIL_PREFIX_LIST == << <<"7", "C", "F">> >>

None == << >>
Some(v) == << v >>

Abs(n) == IF n < 0 THEN -n ELSE n

--------------------------------------------------------------------------
(* Strings as sequences of characters *)

\* str.lower() on one character
LowerChar(c) ==
    CASE c = "A" -> "a" [] c = "B" -> "b" [] c = "C" -> "c"
      [] c = "D" -> "d" [] c = "E" -> "e" [] c = "F" -> "f"
      [] OTHER -> c

\* str.lower()
Lower(s) == [i \in 1..Len(s) |-> LowerChar(s[i])]

\* s.startswith(p)
StartsWith(s, p) == Len(p) <= Len(s) /\ SubSeq(s, 1, Len(p)) = p

\* s.startswith(tuple of prefixes)
StartsWithAny(s, ps) == \E i \in 1..Len(ps) : StartsWith(s, ps[i])

RECURSIVE LStrip(_)
LStrip(s) == IF s # << >> /\ Head(s) = " " THEN LStrip(Tail(s)) ELSE s

RECURSIVE RStrip(_)
RStrip(s) ==
    IF s # << >> /\ s[Len(s)] = " " THEN RStrip(SubSeq(s, 1, Len(s) - 1)) ELSE s

\* str.strip()
Strip(s) == RStrip(LStrip(s))

\* s[:n]
Prefix(s, n) == SubSeq(s, 1, IF Len(s) < n THEN Len(s) ELSE n)

--------------------------------------------------------------------------
(* GeoMath *)

\* calculate_distance_bearing(lat1, lon1, lat2, lon2) for two points on a
\* common axis through (lat1, lon1): the great-circle distance is the arc
\* offset; the bearing is atan2(y, x) normalised to [0, 360), which is 0 for
\* due north (and for the point itself, atan2(0, 0) = 0), 90 east, 180 south,
\* 270 west.
calculate_distance_bearing(lat1, lon1, lat2, lon2) ==
    LET dlat == lat2 - lat1
        dlon == lon2 - lon1
        distance == Abs(dlat) + Abs(dlon)
        bearing == IF dlon > 0 THEN 90
                   ELSE IF dlon < 0 THEN 270
                   ELSE IF dlat < 0 THEN 180
                   ELSE 0
    IN  <<distance, bearing>>

\* the configured origin, LAT and LON
LAT == 0
LON == 0

--------------------------------------------------------------------------
(* RecordParser: parse_aircraft *)

\* the result of a call: it raised, or it returned None / an Aircraft
Raised      == [raised |-> TRUE, value |-> None]
Returned(v) == [raised |-> FALSE, value |-> v]

\* data.get(key, default) or 0, for a numeric field
GetOrZero(field) == IF field = None THEN 0 ELSE field[1]

\* distance > RADIUS_NM: the record is outside our range
OutOfRange_Never(distance) == FALSE
OutOfRange(distance) == distance > RADIUS_NM * DistUnit

\* hex_code = data['hex'].lower()
HexCode(hex) == Lower(hex)

\* Aircraft(...) of parse_aircraft; gs comes in tenths of a knot and int()
\* truncates it
MakeAircraft(data, distance, bearing) ==
    LET hex_code == HexCode(data.hex[1])
        mil_prefixes == [i \in 1..Len(MIL_PREFIX_LIST) |-> Lower(MIL_PREFIX_LIST[i])]
    IN  [hex_code    |-> hex_code,
         callsign    |-> Prefix(Strip(IF data.flight = None
                                      THEN <<"U","N","K","N","O","W","N">>
                                      ELSE data.flight[1]), 8),
         lat         |-> data.lat[1],
         lon         |-> data.lon[1],
         altitude    |-> GetOrZero(data.alt_baro),
         speed       |-> GetOrZero(data.gs) \div 10,
         track       |-> GetOrZero(data.track),
         distance    |-> distance,
         bearing     |-> bearing,
         is_military |-> StartsWithAny(hex_code, mil_prefixes)]

parse_aircraft(data) ==
    IF data.lat = None \/ data.lon = None
    THEN Returned(None)
    ELSE LET db == calculate_distance_bearing(LAT, LON, data.lat[1], data.lon[1])
         IN  IF OutOfRange(db[1])
             THEN Returned(None)
             ELSE IF data.hex = None
                  THEN Raised        \* data['hex']: KeyError
                  ELSE Returned(Some(MakeAircraft(data, db[1], db[2])))

--------------------------------------------------------------------------
(* The feed: what requests.get(TAR1090_URL).json() can hold *)

Raw(lat, lon, hex, flight, alt_baro, gs, track) ==
    [lat |-> lat, lon |-> lon, hex |-> hex, flight |-> flight,
     alt_baro |-> alt_baro, gs |-> gs, track |-> track]

\* a military contact 12.0 NM north, upper-case hex, padded callsign
FeedMil == Raw(Some(120), Some(0), Some(<<"7","C","F","1">>),
               Some(<<"A","S","Y","1"," "," ">>), Some(32000), Some(4315), Some(90))
\* a civil contact exactly on the range limit, no callsign, no track
FeedCiv == Raw(Some(0), Some(-600), Some(<<"a","B","2">>),
               None, Some(0), None, None)
\* a contact without a position
FeedNoPos == Raw(None, Some(10), Some(<<"c","0","3">>), None, None, None, None)
\* a contact just outside the range
FeedFar == Raw(Some(-601), Some(0), Some(<<"d","0","4">>), None, None, None, None)
\* a contact in range whose record carries no hex
FeedNoHex == Raw(Some(30), Some(0), None, None, None, None, None)

\* the contacts the receiver reports, in the order the feed lists them
Feed == <<FeedMil, FeedNoPos, FeedNoHex, FeedFar, FeedCiv>>

\* the records of Feed at the positions in I, in feed order
SubFeed(I) ==
    LET F[k \in 0..Len(Feed)] ==
            IF k = 0 THEN << >>
            ELSE IF k \in I THEN Append(F[k - 1], Feed[k]) ELSE F[k - 1]
    IN  F[Len(Feed)]

\* the 'aircraft' arrays a fetch can return: up to MaxFeed of the contacts
Responses ==
    {SubFeed(I) : I \in {J \in SUBSET (1..Len(Feed)) : Cardinality(J) <= MaxFeed}}

--------------------------------------------------------------------------
(* RefreshLoop: AircraftTracker.update_loop and fetch_data *)

\* self.status = "SCANNING" at the start of a tick
TickStatus_Keep(old) == old
TickStatus(old) == "SCANNING"

\* if aircraft: self.aircraft = aircraft
NextLive_Blank(live, fetched) == fetched
NextLive_Merge(live, fetched) == IF fetched # << >> THEN live \o fetched ELSE live
NextLive(live, fetched) == IF fetched # << >> THEN fetched ELSE live

\* self.status = "ACTIVE" / "NO CONTACTS"
StatusAfter_Eager(fetched) == "ACTIVE"
StatusAfter(fetched) == IF fetched # << >> THEN "ACTIVE" ELSE "NO CONTACTS"

\* while self.running:
LoopCheck ==
    /\ pcR = "check"
    /\ pcR' = IF running THEN "scan" ELSE "done"
    /\ UNCHANGED <<trackerVars, response, idx, aircraft_list, liveAtTick, liveSrc,
                   mainVars, now>>
    /\ UNCHANGED <<parseVars, batchVars, cacheVars>>

\* self.status = "SCANNING"
SetScanning ==
    /\ pcR = "scan"
    /\ status' = TickStatus(status)
    /\ liveAtTick' = aircraft
    /\ pcR' = "stamp"
    /\ UNCHANGED <<aircraft, last_update, running, response, idx, aircraft_list,
                   liveSrc, mainVars, now>>
    /\ UNCHANGED <<parseVars, batchVars, cacheVars>>

\* self.last_update = time.time()
StampTick ==
    /\ pcR = "stamp"
    /\ last_update' = now
    /\ pcR' = "fetch"
    /\ UNCHANGED <<aircraft, status, running, response, idx, aircraft_list,
                   liveAtTick, liveSrc, mainVars, now>>
    /\ UNCHANGED <<parseVars, batchVars, cacheVars>>

\* requests.get / raise_for_status / response.json() raise a RequestException:
\* fetch_data prints and returns []
FetchError ==
    /\ pcR = "fetch"
    /\ response' = None
    /\ aircraft_list' = << >>
    /\ idx' = 1
    /\ pcR' = "apply"
    /\ UNCHANGED <<trackerVars, liveAtTick, liveSrc, mainVars, now>>
    /\ UNCHANGED <<parseVars, batchVars, cacheVars>>

\* the request succeeds: data.get('aircraft', []) is r, one of the given
\* arrays; aircraft_list = []
FetchFrom(responses) ==
    /\ pcR = "fetch"
    /\ \E r \in responses : response' = Some(r)
    /\ aircraft_list' = << >>
    /\ idx' = 1
    /\ pcR' = "parse"
    /\ UNCHANGED <<trackerVars, liveAtTick, liveSrc, mainVars, now>>
    /\ UNCHANGED <<parseVars, batchVars, cacheVars>>

\* the local list after one iteration of the for loop
ParsedAppend(list, p) == IF p.value # None THEN Append(list, p.value[1]) ELSE list

\* one iteration of: for aircraft_data in ...: parse, append if not None.
\* A KeyError is no RequestException: it leaves fetch_data and update_loop
\* and ends the thread.
ParseRecord_InPlace ==
    /\ pcR = "parse"
    /\ idx <= Len(response[1])
    /\ LET p == parse_aircraft(response[1][idx])
       IN  IF p.raised
           THEN /\ pcR' = "dead"
                /\ UNCHANGED <<aircraft_list, idx, aircraft>>
           ELSE /\ aircraft_list' = ParsedAppend(aircraft_list, p)
                /\ aircraft' = ParsedAppend(aircraft_list, p)
                /\ idx' = idx + 1
                /\ pcR' = "parse"
    /\ UNCHANGED <<status, last_update, running, response, liveAtTick, liveSrc,
                   mainVars, now>>
    /\ UNCHANGED <<parseVars, batchVars, cacheVars>>

ParseRecord ==
    /\ pcR = "parse"
    /\ idx <= Len(response[1])
    /\ LET p == parse_aircraft(response[1][idx])
       IN  IF p.raised
           THEN /\ pcR' = "dead"
                /\ UNCHANGED <<aircraft_list, idx>>
           ELSE /\ aircraft_list' = ParsedAppend(aircraft_list, p)
                /\ idx' = idx + 1
                /\ pcR' = "parse"
    /\ UNCHANGED <<trackerVars, response, liveAtTick, liveSrc, mainVars, now>>
    /\ UNCHANGED <<parseVars, batchVars, cacheVars>>

FetchOk == FetchFrom(Responses)

\* return aircraft_list
FetchReturn ==
    /\ pcR = "parse"
    /\ idx > Len(response[1])
    /\ pcR' = "apply"
    /\ UNCHANGED <<trackerVars, response, idx, aircraft_list, liveAtTick, liveSrc,
                   mainVars, now>>
    /\ UNCHANGED <<parseVars, batchVars, cacheVars>>

\* aircraft = self.fetch_data(); if aircraft: self.aircraft = aircraft
ApplyFetch ==
    /\ pcR = "apply"
    /\ aircraft' = NextLive(aircraft, aircraft_list)
    /\ liveSrc' = IF aircraft_list # << >> THEN response ELSE liveSrc
    /\ pcR' = "status"
    /\ UNCHANGED <<status, last_update, running, response, idx, aircraft_list,
                   liveAtTick, mainVars, now>>
    /\ UNCHANGED <<parseVars, batchVars, cacheVars>>

\* self.status = "ACTIVE" or "NO CONTACTS"
SetStatus ==
    /\ pcR = "status"
    /\ status' = StatusAfter(aircraft_list)
    /\ pcR' = "sleep"
    /\ UNCHANGED <<aircraft, last_update, running, response, idx, aircraft_list,
                   liveAtTick, liveSrc, mainVars, now>>
    /\ UNCHANGED <<parseVars, batchVars, cacheVars>>

\* time.sleep(FETCH_INTERVAL) returns
Sleep ==
    /\ pcR = "sleep"
    /\ pcR' = "check"
    /\ UNCHANGED <<trackerVars, response, idx, aircraft_list, liveAtTick, liveSrc,
                   mainVars, now>>
    /\ UNCHANGED <<parseVars, batchVars, cacheVars>>

\* the refresh thread is a daemon thread: it runs until the process exits
ThreadAlive == pcM # "exited"

Refresh ==
    /\ ThreadAlive
    /\ \/ LoopCheck
       \/ SetScanning
       \/ StampTick
       \/ FetchError
       \/ FetchOk
       \/ ParseRecord
       \/ FetchReturn
       \/ ApplyFetch
       \/ SetStatus
       \/ Sleep

--------------------------------------------------------------------------
(* main(): the render loop *)
\* Under Spec a frame is its reads of the tracker's fields.  The caches the
\* draw calls drive belong to the render loop alone (the refresh thread holds
\* no reference to them); their operations are the actions of TextSpec,
\* CoordSpec and SortSpec, and under Spec they stay as constructed.

\* tracker = AircraftTracker(); tracker.start()
StartTracker ==
    /\ pcM = "start"
    /\ pcR = "idle"
    /\ pcR' = "check"
    /\ pcM' = "events"
    /\ UNCHANGED <<trackerVars, response, idx, aircraft_list, liveAtTick, liveSrc,
                   main_running, radarSeen, now>>
    /\ UNCHANGED <<parseVars, batchVars, cacheVars>>

\* for event in pygame.event.get(): a QUIT / Q / ESC event sets running = False;
\* the frame is drawn all the same
FrameBegin ==
    /\ pcM = "events"
    /\ \E quit \in BOOLEAN : main_running' = ~quit
    /\ radarSeen' = None
    /\ pcM' = "radar"
    /\ UNCHANGED <<trackerVars, refreshVars, now>>
    /\ UNCHANGED <<parseVars, batchVars, cacheVars>>

\* radar.draw(tracker.aircraft)
RadarDraw ==
    /\ pcM = "radar"
    /\ radarSeen' = Some(aircraft)
    /\ pcM' = "table"
    /\ UNCHANGED <<trackerVars, refreshVars, main_running, now>>
    /\ UNCHANGED <<parseVars, batchVars, cacheVars>>

\* table.draw(tracker.aircraft, tracker.status, tracker.last_update)
TableDraw ==
    /\ pcM = "table"
    /\ pcM' = "flip"
    /\ UNCHANGED <<trackerVars, refreshVars, main_running, radarSeen, now>>
    /\ UNCHANGED <<parseVars, batchVars, cacheVars>>

\* pygame.display.flip(); clock.tick(FPS); while running:
FrameEnd ==
    /\ pcM = "flip"
    /\ pcM' = IF main_running THEN "events" ELSE "stop"
    /\ radarSeen' = None
    /\ UNCHANGED <<trackerVars, refreshVars, main_running, now>>
    /\ UNCHANGED <<parseVars, batchVars, cacheVars>>

\* tracker.running = False
StopTracker ==
    /\ pcM = "stop"
    /\ running' = FALSE
    /\ pcM' = "quit"
    /\ UNCHANGED <<aircraft, status, last_update, refreshVars, main_running,
                   radarSeen, now>>
    /\ UNCHANGED <<parseVars, batchVars, cacheVars>>

\* pygame.quit() returns and the process exits
ProcessExit ==
    /\ pcM = "quit"
    /\ pcM' = "exited"
    /\ UNCHANGED <<trackerVars, refreshVars, main_running, radarSeen, now>>
    /\ UNCHANGED <<parseVars, batchVars, cacheVars>>

\* time passes
Tick ==
    /\ now < MaxTime
    /\ pcM # "exited"
    /\ now' = now + 1
    /\ UNCHANGED <<trackerVars, refreshVars, mainVars>>
    /\ UNCHANGED <<parseVars, batchVars, cacheVars>>

--------------------------------------------------------------------------
(* A call of parse_aircraft on any raw record *)

\* values a present field can hold
LatValues    == {0, 30, 120, 600, 601, -601}
LonValues    == {0, 10, -600}
HexValues    == {<<"7","C","F","1">>, <<"a","B","2">>}
FlightValues == {<<"A","S","Y","1"," "," ">>,
                 <<" ","L","O","N","G","C","A","L","L","1">>}
AltValues    == {0, 32000}
GsValues     == {4315}
TrackValues  == {90}

Optional(S) == {None} \cup {Some(v) : v \in S}

\* every raw record over those values whose position, if it has one, lies on
\* an axis through the origin
RawRecords ==
    {d \in [lat : Optional(LatValues), lon : Optional(LonValues),
            hex : Optional(HexValues), flight : Optional(FlightValues),
            alt_baro : Optional(AltValues), gs : Optional(GsValues),
            track : Optional(TrackValues)] :
        (d.lat # None /\ d.lon # None) => (d.lat[1] = LAT \/ d.lon[1] = LON)}

\* aircraft = parse_aircraft(aircraft_data)
ParseCall ==
    /\ parse_result = None
    /\ parse_result' = Some(parse_aircraft(parse_data))
    /\ UNCHANGED <<trackerVars, refreshVars, mainVars, now, parse_data, batchVars,
                   cacheVars>>

--------------------------------------------------------------------------
(* GlyphCache: OptimizedTextCache *)

\* MAX_TEXT_CACHE_SIZE, the capacity the cache is built with
MaxTextCacheSize == 3
\* number of render calls explored
MaxTextCalls == 6

\* key = (text, color, font.get_height())
TextKeys == {<<t, c, 22>> : t \in {"CALL", "60NM", "ASY1"}, c \in {"AMBER", "GREEN"}}

\* font.render(text, True, color)
FontRender(key) == [text |-> key[1], color |-> key[2], height |-> key[3]]

InList(list, x) == \E i \in 1..Len(list) : list[i] = x

\* list.remove(x): drops the first x
ListRemove(list, x) ==
    IF ~InList(list, x) THEN list
    ELSE LET first == CHOOSE i \in 1..Len(list) :
                         /\ list[i] = x
                         /\ \A j \in 1..(i - 1) : list[j] # x
         IN  SubSeq(list, 1, first - 1) \o SubSeq(list, first + 1, Len(list))

\* d[k] = v
DictSet(d, k, v) == [x \in DOMAIN d \cup {k} |-> IF x = k THEN v ELSE d[x]]
\* del d[k]
DictDel(d, k) == [x \in DOMAIN d \ {k} |-> d[x]]
EmptyDict == [x \in {} |-> None]

\* a hit: self.access_order.remove(key); self.access_order.append(key)
Touch_NoMove(order, key) == order
Touch_Again(order, key) == Append(order, key)
Touch(order, key) == Append(ListRemove(order, key), key)

\* len(self.cache) > self.max_size
OverLimit_Lax(size, limit) == size > limit + 1
OverLimit(size, limit) == size > limit

NoCall == [key |-> None, hit |-> FALSE, evicted |-> None, evictedStamp |-> None,
           ret |-> None, raised |-> FALSE]

\* history of the call that rendered key as call number n
Stamped(stamp, key, n, hit) ==
    [k \in DOMAIN stamp \cup {key} |->
        IF k = key
        THEN [ins |-> IF hit THEN stamp[k].ins ELSE n, acc |-> n]
        ELSE stamp[k]]

\* OptimizedTextCache.render(font, text, color)
TextRender(key) ==
    /\ text_calls < MaxTextCalls
    /\ text_calls' = text_calls + 1
    /\ IF ~enable_text_cache
       THEN /\ text_call' = [NoCall EXCEPT !.key = Some(key), !.ret = Some(FontRender(key))]
            /\ UNCHANGED <<text_cache, access_order, text_stamp>>
       ELSE IF key \in DOMAIN text_cache
       THEN IF ~InList(access_order, key)
            THEN \* list.remove(x): ValueError, x not in list
                 /\ text_call' = [NoCall EXCEPT !.key = Some(key), !.hit = TRUE,
                                                !.raised = TRUE]
                 /\ UNCHANGED <<text_cache, access_order, text_stamp>>
            ELSE /\ access_order' = Touch(access_order, key)
                 /\ text_call' = [NoCall EXCEPT !.key = Some(key), !.hit = TRUE,
                                                !.ret = Some(text_cache[key])]
                 /\ text_stamp' = Stamped(text_stamp, key, text_calls', TRUE)
                 /\ UNCHANGED text_cache
       ELSE LET surface == FontRender(key)
                cache1  == DictSet(text_cache, key, surface)
                order1  == Append(access_order, key)
            IN  IF OverLimit(Cardinality(DOMAIN cache1), max_size)
                THEN LET oldest == Head(order1)
                     IN  IF oldest \notin DOMAIN cache1
                         THEN \* del self.cache[oldest]: KeyError
                              /\ text_cache' = cache1
                              /\ access_order' = Tail(order1)
                              /\ text_call' = [NoCall EXCEPT !.key = Some(key),
                                                             !.raised = TRUE]
                              /\ text_stamp' = Stamped(text_stamp, key, text_calls', FALSE)
                         ELSE /\ text_cache' = DictDel(cache1, oldest)
                              /\ access_order' = Tail(order1)
                              /\ text_call' = [NoCall EXCEPT !.key = Some(key),
                                    !.evicted = Some(oldest),
                                    !.evictedStamp = IF oldest \in DOMAIN text_stamp
                                                     THEN Some(text_stamp[oldest])
                                                     ELSE None,
                                    !.ret = Some(surface)]
                              /\ text_stamp' = DictDel(
                                    Stamped(text_stamp, key, text_calls', FALSE), oldest)
                ELSE /\ text_cache' = cache1
                     /\ access_order' = order1
                     /\ text_call' = [NoCall EXCEPT !.key = Some(key),
                                                    !.ret = Some(surface)]
                     /\ text_stamp' = Stamped(text_stamp, key, text_calls', FALSE)
    /\ UNCHANGED <<trackerVars, refreshVars, mainVars, now, parseVars,
                   enable_text_cache, max_size, text_last_clear, coordVars, sortVars>>
    /\ UNCHANGED <<staticVars, batchVars>>

Render == \E key \in TextKeys : TextRender(key)

\* the compaction age of clear_old, in seconds
ClearAge == 300
\* the number of entries clear_old keeps
KeepCount == 100

\* list[-n:]
LastN_First(list, n) == IF Len(list) <= n THEN list ELSE SubSeq(list, 1, n)
LastN(list, n) == IF Len(list) <= n THEN list ELSE SubSeq(list, Len(list) - n + 1, Len(list))

\* OptimizedTextCache.clear_old()
ClearOld ==
    /\ IF now - text_last_clear > ClearAge
       THEN IF Cardinality(DOMAIN text_cache) > KeepCount
            THEN LET to_keep == LastN(access_order, KeepCount)
                 IN  IF \E i \in 1..Len(to_keep) : to_keep[i] \notin DOMAIN text_cache
                     THEN \* self.cache[k]: KeyError
                          /\ text_call' = [NoCall EXCEPT !.raised = TRUE]
                          /\ UNCHANGED <<text_cache, access_order, text_last_clear>>
                     ELSE /\ text_cache' = [k \in {to_keep[i] : i \in 1..Len(to_keep)}
                                               |-> text_cache[k]]
                          /\ access_order' = to_keep
                          /\ text_last_clear' = now
                          /\ text_call' = NoCall
            ELSE /\ text_last_clear' = now
                 /\ text_call' = NoCall
                 /\ UNCHANGED <<text_cache, access_order>>
       ELSE /\ text_call' = NoCall
            /\ UNCHANGED <<text_cache, access_order, text_last_clear>>
    /\ UNCHANGED <<trackerVars, refreshVars, mainVars, now, parseVars,
                   enable_text_cache, max_size, text_stamp, text_calls,
                   coordVars, sortVars>>
    /\ UNCHANGED <<staticVars, batchVars>>

\* the clock readings of the glyph cache's checks: each lies ClearAge or
\* ClearAge + 1 seconds after the one before
TextClockLimit == ClearAge + 1

TextElapse ==
    /\ \E d \in {ClearAge, ClearAge + 1} :
          /\ now + d <= TextClockLimit
          /\ now' = now + d
    /\ UNCHANGED <<trackerVars, refreshVars, mainVars, parseVars, batchVars,
                   cacheVars>>

\* MAX_TEXT_CACHE_SIZE, the capacity main() constructs the glyph cache with
MAX_TEXT_CACHE_SIZE == 1000

\* the key of the callsign label of the i-th contact on the scope:
\* (aircraft.callsign, BRIGHT_GREEN, font height)
CallsignKey(i) == << <<"F", "L", i>>, "BRIGHT_GREEN", 22 >>

\* the glyph cache after the labels of the first n contacts were rendered,
\* one after the other, into the empty cache
LabelledCache(n) == [k \in {CallsignKey(i) : i \in 1..n} |-> FontRender(k)]
LabelledOrder(n) == [i \in 1..n |-> CallsignKey(i)]
LabelledStamp(n) ==
    [k \in {CallsignKey(i) : i \in 1..n} |-> [ins |-> k[1][3] - n, acc |-> k[1][3] - n]]

\* the labels rendered again later: two of the oldest and one of a new contact
LaterLabels == {CallsignKey(1), CallsignKey(2), CallsignKey(KeepCount + 3)}

RenderLabel == \E key \in LaterLabels : TextRender(key)

--------------------------------------------------------------------------
(* GeometryCache: CoordinateCache *)

\* COORDINATE_CACHE_TTL, in seconds
COORDINATE_CACHE_TTL == 2
\* last clock reading of the geometry cache's calls
MaxCoordTime == 3

\* (lat - LAT) * 111 / self.range_km for an arc offset in tenths of a nautical
\* mile: one degree is 60.0405 NM of arc and counts as 111 km, range_km is
\* RADIUS_NM * 1.852, so an offset of u tenths is u / (10 * RADIUS_NM) of the
\* range times 111 / (60.0405 * 1.852) = 0.99825 = ProjNum / ProjDen
ProjNum == 3993
ProjDen == 4000

\* CoordinateCache._calculate_pos(lat, lon, center_x, center_y, radius):
\* (int(x), int(y)) when the point is within the radar circle, else None.
\* The position lies on an axis, so dx*dx + dy*dy <= radius*radius compares
\* the absolute offset with the radius.
calculate_pos(lat, lon, center_x, center_y, radius) ==
    LET den == DistUnit * RADIUS_NM * ProjDen
        nx  == (lon - LON) * ProjNum * radius
        ny  == (lat - LAT) * ProjNum * radius
    IN  IF (Abs(nx) + Abs(ny)) <= radius * den
        THEN Some(<<center_x + (nx \div den), center_y + ((0 - ny) \div den)>>)
        ELSE None

\* current_time - self.last_update.get(cache_key, 0) < COORDINATE_CACHE_TTL
Fresh_Short(age) == age + 1 < COORDINATE_CACHE_TTL
Fresh_Inclusive(age) == age <= COORDINATE_CACHE_TTL
Fresh(age) == age < COORDINATE_CACHE_TTL

\* self.last_update.get(cache_key, 0)
LastUpdateOf(key) == IF key \in DOMAIN coord_last_update THEN coord_last_update[key] ELSE 0

\* had: the identity had an entry when the call was made
NoCoordCall ==
    [id |-> None, args |-> None, ret |-> None, computed |-> FALSE, had |-> FALSE]

\* CoordinateCache.get_screen_pos(aircraft_id, lat, lon, center_x, center_y, radius)
GetScreenPos(aircraft_id, lat, lon, center_x, center_y, radius) ==
    LET call == [id |-> Some(aircraft_id),
                 args |-> Some(<<lat, lon, center_x, center_y, radius>>),
                 ret |-> None, computed |-> FALSE,
                 had |-> aircraft_id \in DOMAIN coord_cache]
    IN
    IF ~enable_coordinate_cache
    THEN /\ coord_call' = [call EXCEPT !.computed = TRUE,
              !.ret = Some(calculate_pos(lat, lon, center_x, center_y, radius))]
         /\ UNCHANGED <<coord_cache, coord_last_update>>
    ELSE IF aircraft_id \in DOMAIN coord_cache /\ Fresh(now - LastUpdateOf(aircraft_id))
    THEN /\ coord_call' = [call EXCEPT !.ret = Some(coord_cache[aircraft_id])]
         /\ UNCHANGED <<coord_cache, coord_last_update>>
    ELSE LET pos == calculate_pos(lat, lon, center_x, center_y, radius)
         IN  /\ coord_cache' = DictSet(coord_cache, aircraft_id, pos)
             /\ coord_last_update' = DictSet(coord_last_update, aircraft_id, now)
             /\ coord_call' = [call EXCEPT !.computed = TRUE, !.ret = Some(pos)]

\* the arguments the calls are made with
CoordIds    == {<<"7","c","f","1">>, <<"a","b","2">>}
CoordPoints == {<<120, 0>>, <<0, -600>>, <<700, 0>>}
CoordScopes == {<<240, 300, 210>>, <<100, 100, 80>>}

ScreenPosCall ==
    /\ \E id \in CoordIds, pt \in CoordPoints, sc \in CoordScopes :
          GetScreenPos(id, pt[1], pt[2], sc[1], sc[2], sc[3])
    /\ UNCHANGED <<trackerVars, refreshVars, mainVars, now, parseVars,
                   enable_coordinate_cache, textVars, sortVars>>
    /\ UNCHANGED <<staticVars, batchVars>>

\* time passes between calls
CoordElapse ==
    /\ now < MaxCoordTime
    /\ now' = now + 1
    /\ UNCHANGED <<trackerVars, refreshVars, mainVars, parseVars, batchVars,
                   cacheVars>>

--------------------------------------------------------------------------
(* OrderedView: SortedAircraftManager *)

\* longest list handed to update_aircraft
MaxSortLen == 2

\* {a.hex_code: a for a in new_aircraft_list}: a later record replaces an
\* earlier one with the same hex_code
DictOf(list) ==
    LET F[k \in 0..Len(list)] ==
            IF k = 0 THEN EmptyDict ELSE DictSet(F[k - 1], list[k].hex_code, list[k])
    IN  F[Len(list)]

\* abs(aircraft.distance - old_aircraft.distance) > 0.5
MovedFar_Any(new_distance, old_distance) == new_distance # old_distance
MovedFar_Inclusive(new_distance, old_distance) ==
    2 * Abs(new_distance - old_distance) >= DistUnit
MovedFar(new_distance, old_distance) ==
    2 * Abs(new_distance - old_distance) > DistUnit

\* the decision of update_aircraft: the keys differ, or some aircraft of the
\* new dict has moved far from its old record
ResortNeeded(new_dict, old_dict) ==
    IF DOMAIN new_dict # DOMAIN old_dict
    THEN TRUE
    ELSE \E h \in DOMAIN new_dict : MovedFar(new_dict[h].distance, old_dict[h].distance)

\* insert a after the last element whose distance is not greater
RECURSIVE InsertByDistance(_, _)
InsertByDistance(sorted, a) ==
    IF sorted = << >> THEN <<a>>
    ELSE IF a.distance < Head(sorted).distance THEN <<a>> \o sorted
    ELSE <<Head(sorted)>> \o InsertByDistance(Tail(sorted), a)

\* sorted(new_aircraft_list, key=lambda a: a.distance): a stable sort
SortedByDistance(list) ==
    LET F[k \in 0..Len(list)] ==
            IF k = 0 THEN << >> ELSE InsertByDistance(F[k - 1], list[k])
    IN  F[Len(list)]

\* history: the largest move of an identity between two dicts with the same
\* identities, in tenths of a nautical mile; -1 when the identities differ
LargestMove(new_dict, old_dict) ==
    IF DOMAIN new_dict # DOMAIN old_dict THEN -1
    ELSE LET moves == {Abs(new_dict[h].distance - old_dict[h].distance) :
                          h \in DOMAIN new_dict} \cup {0}
         IN  CHOOSE m \in moves : \A n \in moves : n <= m

NoSortCall == [input |-> << >>, resorted |-> FALSE, nth |-> 0, move |-> -1]

NoSliceCall == [called |-> FALSE, max_count |-> None, ret |-> << >>]

\* SortedAircraftManager.update_aircraft(new_aircraft_list)
UpdateAircraft(new_aircraft_list) ==
    LET new_dict == DictOf(new_aircraft_list)
        resort   == needs_resort \/ ResortNeeded(new_dict, aircraft_dict)
    IN  /\ aircraft_dict' = new_dict
        /\ sorted_list' = IF resort THEN SortedByDistance(new_aircraft_list)
                          ELSE sorted_list
        /\ needs_resort' = FALSE
        /\ sort_call' = [input |-> new_aircraft_list,
                         resorted |-> resort,
                         nth |-> IF sort_call.nth = 0 THEN 1 ELSE 2,
                         move |-> LargestMove(new_dict, aircraft_dict)]

\* an Aircraft with identity hex at distance d due north of the origin, as
\* parse_aircraft builds it
AircraftAt(hex, d) ==
    MakeAircraft(Raw(Some(LAT + d), Some(LON), Some(hex), None, None, None, None), d, 0)

\* the contacts handed to update_aircraft: identity and distance in tenths of
\* a nautical mile. One identity moves by 0.1, 0.5 and 0.6 NM and on, in
\* steps of at most 0.5 NM, to 11.5 NM; one moves by 0.5 NM, one stays; two
\* of them can be equally far.
SortContacts ==
    { << <<"a","1">>, 100 >>, << <<"a","1">>, 105 >>, << <<"a","1">>, 106 >>,
      << <<"a","1">>, 110 >>, << <<"a","1">>, 115 >>,
      << <<"b","2">>, 100 >>, << <<"b","2">>, 105 >>,
      << <<"c","3">>, 103 >> }
SortAircraft == {AircraftAt(c[1], c[2]) : c \in SortContacts}

\* the lists of a refresh: no identity twice
SortInputs ==
    {l \in UNION {[1..n -> SortAircraft] : n \in 0..MaxSortLen} :
        \A i, j \in 1..Len(l) : i # j => l[i].hex_code # l[j].hex_code}

Update ==
    /\ \E l \in SortInputs : UpdateAircraft(l)
    /\ slice_call' = NoSliceCall
    /\ UNCHANGED <<trackerVars, refreshVars, mainVars, now, parseVars,
                   textVars, coordVars>>
    /\ UNCHANGED <<staticVars, batchVars>>

\* largest max_count handed to get_sorted_aircraft
MaxSliceCount == 3

\* `if max_count:` is false for None and for 0
Truthy(max_count) == max_count # None /\ max_count[1] # 0

\* list[:n]
SliceTo(list, n) ==
    IF n >= 0
    THEN SubSeq(list, 1, IF n < Len(list) THEN n ELSE Len(list))
    ELSE SubSeq(list, 1, IF Len(list) + n > 0 THEN Len(list) + n ELSE 0)

\* SortedAircraftManager.get_sorted_aircraft(max_count), on self.sorted_list
get_sorted_aircraft(list, max_count) ==
    IF Truthy(max_count) THEN SliceTo(list, max_count[1]) ELSE list

\* max_count=None (the default) or a count
SliceCounts == {None} \cup {Some(n) : n \in 0..MaxSliceCount}

GetSorted ==
    /\ \E max_count \in SliceCounts :
          slice_call' = [called |-> TRUE, max_count |-> max_count,
                         ret |-> get_sorted_aircraft(sorted_list, max_count)]
    /\ UNCHANGED <<aircraft_dict, sorted_list, needs_resort, sort_call>>
    /\ UNCHANGED <<trackerVars, refreshVars, mainVars, now, parseVars,
                   textVars, coordVars>>
    /\ UNCHANGED <<staticVars, batchVars>>

--------------------------------------------------------------------------
(* BackgroundCache: StaticSurfaceCache *)

\* number of get_radar_static calls explored
MaxStaticCalls == 5
\* last value of the clock under StaticSpec
MaxStaticTime == 3

\* if self.needs_rebuild or self.radar_static is None:
MustBuild_Always(flag, surface) == TRUE
MustBuild(flag, surface) == flag \/ surface = None

\* pygame.Surface(...).convert_alpha() with _draw_static_elements drawn on it:
\* a new surface object (serial tells the objects apart) holding the rings,
\* crosshairs and outer circle of this geometry
DrawStatic(center_x, center_y, radius, serial) ==
    [rings |-> <<radius \div 3, (2 * radius) \div 3, radius>>,
     center |-> <<center_x, center_y>>,
     serial |-> serial]

\* nth: calls so far; builds: surfaces built so far; found: calls so far that
\* found the flag set or no surface; at: the time of the call
NoStaticCall ==
    [nth |-> 0, args |-> None, ret |-> None, built |-> FALSE, builds |-> 0,
     found |-> 0, at |-> 0]

\* StaticSurfaceCache.get_radar_static(center_x, center_y, radius)
GetRadarStatic(center_x, center_y, radius) ==
    LET call == [static_call EXCEPT
                    !.nth = @ + 1,
                    !.args = Some(<<center_x, center_y, radius>>),
                    !.at = now,
                    !.found = IF needs_rebuild \/ radar_static = None
                              THEN @ + 1 ELSE @]
    IN  IF ~enable_static_surface_cache
        THEN /\ static_call' = [call EXCEPT !.ret = None, !.built = FALSE]
             /\ UNCHANGED <<radar_static, needs_rebuild>>
        ELSE IF MustBuild(needs_rebuild, radar_static)
        THEN LET surface == DrawStatic(center_x, center_y, radius, static_call.builds + 1)
             IN  /\ radar_static' = Some(surface)
                 /\ needs_rebuild' = FALSE
                 /\ static_call' = [call EXCEPT !.ret = Some(surface), !.built = TRUE,
                                                !.builds = @ + 1]
        ELSE /\ static_call' = [call EXCEPT !.ret = radar_static, !.built = FALSE]
             /\ UNCHANGED <<radar_static, needs_rebuild>>

StaticCall ==
    /\ static_call.nth < MaxStaticCalls
    /\ \E scope \in CoordScopes : GetRadarStatic(scope[1], scope[2], scope[3])
    /\ UNCHANGED <<trackerVars, refreshVars, mainVars, now, parseVars, batchVars,
                   textVars, coordVars, sortVars, enable_static_surface_cache>>

StaticElapse ==
    /\ now < MaxStaticTime
    /\ now' = now + 1
    /\ UNCHANGED <<trackerVars, refreshVars, mainVars, parseVars, batchVars,
                   cacheVars>>

--------------------------------------------------------------------------
(* GeoMath: batch_calculate_distances_bearings *)

\* longest aircraft_positions list handed to the batch call
MaxBatchLen == 2

\* the NumPy path computes the formulas of calculate_distance_bearing on
\* arrays, element by element; list(zip(distances_nm, bearings))
batch_calculate_distances_bearings(aircraft_positions, center_lat, center_lon) ==
    IF ~use_numpy_batch_ops \/ aircraft_positions = << >>
    THEN << >>
    ELSE [i \in 1..Len(aircraft_positions) |->
            calculate_distance_bearing(center_lat, center_lon,
                                       aircraft_positions[i][1],
                                       aircraft_positions[i][2])]

\* (lat, lon) pairs on the axes through the origin
BatchPoints == {<<LAT, LON>>, <<LAT + 120, LON>>, <<LAT - 601, LON>>,
                <<LAT, LON - 600>>, <<LAT, LON + 30>>}
BatchInputs == UNION {[1..n -> BatchPoints] : n \in 0..MaxBatchLen}

BatchCall ==
    /\ batch_result = None
    /\ batch_result' =
          Some(batch_calculate_distances_bearings(batch_positions, LAT, LON))
    /\ UNCHANGED <<trackerVars, refreshVars, mainVars, now, parseVars, cacheVars,
                   use_numpy_batch_ops, batch_positions>>

--------------------------------------------------------------------------
(* A frame of main(): what the draw calls do to the caches.  The histories  *)
(* of single calls (text_call, text_stamp, text_calls, coord_call and       *)
(* static_call) belong to the component specifications and are not written  *)
(* by a frame.                                                              *)

\* config.ini fallbacks
FETCH_INTERVAL == 10
MAX_TABLE_ROWS == 10
SCREEN_WIDTH == 960
SCREEN_HEIGHT == 540
HEADER_FONT_SIZE == 32
RADAR_FONT_SIZE == 22
TABLE_FONT_SIZE == 22
INSTRUCTION_FONT_SIZE == 12
BLINK_MILITARY == TRUE

\* RadarScope(screen, SCREEN_WIDTH // 4, SCREEN_HEIGHT // 2 + 30, radar_size, ...)
Least(a, b) == IF a < b THEN a ELSE b
radar_size == Least(SCREEN_HEIGHT - 120, SCREEN_WIDTH \div 2 - 50) \div 2
ScopeCenterX == SCREEN_WIDTH \div 4
ScopeCenterY == SCREEN_HEIGHT \div 2 + 30

\* str(n) of a natural number
DigitChars == <<"0","1","2","3","4","5","6","7","8","9">>
RECURSIVE Digits(_)
Digits(n) ==
    IF n < 10 THEN <<DigitChars[n + 1]>>
    ELSE Digits(n \div 10) \o <<DigitChars[(n % 10) + 1]>>

Fill(n, ch) == [i \in 1..n |-> ch]
\* f"{s:>width}", f"{n:0width}"
PadLeft(text, width, ch) ==
    IF Len(text) >= width THEN text ELSE Fill(width - Len(text), ch) \o text
\* f"{s:<width}"
PadRight(text, width, ch) ==
    IF Len(text) >= width THEN text ELSE text \o Fill(width - Len(text), ch)
\* needle in text
Contains(text, needle) ==
    \E i \in 1..(Len(text) - Len(needle) + 1) :
        SubSeq(text, i, i + Len(needle) - 1) = needle

\* datetime.now().strftime("%H:%M:%S")
ClockText(t) ==
    PadLeft(Digits((t \div 3600) % 24), 2, "0") \o <<":">> \o
    PadLeft(Digits((t \div 60) % 60), 2, "0") \o <<":">> \o
    PadLeft(Digits(t % 60), 2, "0")

\* key = (text, color, font.get_height()); a font's height stands at its size
TextKey(text, color, size) == <<text, color, size>>

\* f"{AREA_NAME} {LAT}deg, {LON}deg - {current_time}", with the fallbacks
HeaderKey(t) ==
    TextKey(<<"U","N","K","N","O","W","N"," ","0",".","0","<deg>",","," ","0",".","0","<deg>"," ","-"," ">> \o ClockText(t),
            "AMBER", HEADER_FONT_SIZE)

\* the texts main() renders before the loop ("<left>" and "<right>" are the
\* two triangles of the title)
StaticTextKeys ==
    << TextKey(<<"<left>"," ","A","D","S","-","B"," ","R","A","D","A","R"," ","S","C","O","P","E"," ","<right>">>, "AMBER", RADAR_FONT_SIZE),
       TextKey(<<"P","R","E","S","S"," ","Q"," ","O","R"," ","E","S","C"," ","T","O"," ","Q","U","I","T">>,
               "DIM_GREEN", INSTRUCTION_FONT_SIZE) >>

\* f"{range_nm}NM" for range_nm = int((ring / 3) * RADIUS_NM)
RangeLabelKey(ring) ==
    TextKey(Digits((ring * RADIUS_NM) \div 3) \o <<"N","M">>, "DIM_GREEN", RADAR_FONT_SIZE)
RangeLabelKeys == [ring \in 1..3 |-> RangeLabelKey(ring)]

\* OptimizedTextCache.render on tc = [cache, order], the map and the recency
\* list being in step (C24), so that neither remove() nor del raises
RenderIn(tc, key) ==
    IF ~enable_text_cache THEN tc
    ELSE IF key \in DOMAIN tc.cache THEN [tc EXCEPT !.order = Touch(@, key)]
    ELSE LET cache1 == DictSet(tc.cache, key, FontRender(key))
             order1 == Append(tc.order, key)
         IN  IF OverLimit(Cardinality(DOMAIN cache1), max_size)
             THEN [cache |-> DictDel(cache1, Head(order1)), order |-> Tail(order1)]
             ELSE [cache |-> cache1, order |-> order1]

\* render called for each key of a list in turn
RenderAllIn(tc, keys) ==
    LET F[k \in 0..Len(keys)] ==
            IF k = 0 THEN tc ELSE RenderIn(F[k - 1], keys[k])
    IN  F[Len(keys)]

\* OptimizedTextCache.clear_old on tc = [cache, order, last_clear]
ClearedIn(tc) ==
    IF now - tc.last_clear > ClearAge
    THEN IF Cardinality(DOMAIN tc.cache) > KeepCount
         THEN LET to_keep == LastN(tc.order, KeepCount)
              IN  [cache |-> [k \in {to_keep[i] : i \in 1..Len(to_keep)} |-> tc.cache[k]],
                   order |-> to_keep, last_clear |-> now]
         ELSE [tc EXCEPT !.last_clear = now]
    ELSE tc

\* CoordinateCache.get_screen_pos for one aircraft of radar.draw's loop, on
\* cc = [cache, last_update, drawn]; drawn collects the positions returned
ScreenPosIn(cc, a) ==
    LET pos == calculate_pos(a.lat, a.lon, ScopeCenterX, ScopeCenterY, radar_size)
    IN  IF ~enable_coordinate_cache
        THEN [cc EXCEPT !.drawn = Append(@, pos)]
        ELSE IF a.hex_code \in DOMAIN cc.cache
                /\ Fresh(now - cc.last_update[a.hex_code])
        THEN [cc EXCEPT !.drawn = Append(@, cc.cache[a.hex_code])]
        ELSE [cache |-> DictSet(cc.cache, a.hex_code, pos),
              last_update |-> DictSet(cc.last_update, a.hex_code, now),
              drawn |-> Append(cc.drawn, pos)]

ScreenPosAllIn(cc, contacts) ==
    LET F[k \in 0..Len(contacts)] ==
            IF k = 0 THEN cc ELSE ScreenPosIn(F[k - 1], contacts[k])
    IN  F[Len(contacts)]

\* RED for a military aircraft, BRIGHT_GREEN for a civil one
ContactColor(a) == IF a.is_military THEN "RED" ELSE "BRIGHT_GREEN"

\* radar.draw draws the aircraft when it has a position on the scope and, if
\* military, when blinking is off or the blink state is on
IsDrawn(a, pos, blink_state) ==
    /\ pos # None
    /\ a.is_military => (~BLINK_MILITARY \/ blink_state = 1)

\* the keys of the callsign labels draw_aircraft renders, in drawing order
CallsignKeys(contacts, drawn, blink_state) ==
    LET F[k \in 0..Len(contacts)] ==
            IF k = 0 THEN << >>
            ELSE IF IsDrawn(contacts[k], drawn[k], blink_state)
                 THEN Append(F[k - 1], TextKey(contacts[k].callsign,
                                               ContactColor(contacts[k]),
                                               RADAR_FONT_SIZE))
                 ELSE F[k - 1]
    IN  F[Len(contacts)]

\* the title and the column headers of the table
TableHeadKeys ==
    << TextKey(<<"A","I","R","C","R","A","F","T"," ","D","A","T","A">>, "AMBER", TABLE_FONT_SIZE),
       TextKey(<<"C","A","L","L">>, "AMBER", TABLE_FONT_SIZE),
       TextKey(<<"A","L","T">>, "AMBER", TABLE_FONT_SIZE),
       TextKey(<<"S","P","D">>, "AMBER", TABLE_FONT_SIZE),
       TextKey(<<"D","I","S","T">>, "AMBER", TABLE_FONT_SIZE),
       TextKey(<<"H","D","G">>, "AMBER", TABLE_FONT_SIZE) >>

\* the five columns of a row; altitude is an int in this model, distance
\* comes in tenths of a nautical mile, "<deg>" is the degree sign
RowTexts(a) ==
    << PadRight(a.callsign, 8, " "),
       IF a.altitude > 0 THEN PadLeft(Digits(a.altitude), 5, " ") ELSE <<"G","N","D">>,
       IF a.speed > 0 THEN PadLeft(Digits(a.speed), 3, " ") ELSE <<"N","/","A">>,
       IF a.distance > 0
       THEN PadLeft(Digits(a.distance \div DistUnit) \o <<".">>
                    \o Digits(a.distance % DistUnit), 4, " ")
       ELSE <<"N","/","A"," ">>,
       IF a.track > 0 THEN PadLeft(Digits(a.track), 3, "0") \o <<"<deg>">> ELSE <<"N","/","A">> >>

RowKeys(a) == [j \in 1..5 |-> TextKey(RowTexts(a)[j], ContactColor(a), TABLE_FONT_SIZE)]

RowsKeys(rows) ==
    LET F[k \in 0..Len(rows)] ==
            IF k = 0 THEN << >> ELSE F[k - 1] \o RowKeys(rows[k])
    IN  F[Len(rows)]

StatusText(st) ==
    CASE st = "INITIALISING" -> <<"I","N","I","T","I","A","L","I","S","I","N","G">>
      [] st = "SCANNING"     -> <<"S","C","A","N","N","I","N","G">>
      [] st = "ACTIVE"       -> <<"A","C","T","I","V","E">>
      [] st = "NO CONTACTS"  -> <<"N","O"," ","C","O","N","T","A","C","T","S">>

\* countdown = max(0, FETCH_INTERVAL - elapsed);
\* f"{int(countdown):02d}S" if countdown > 0 else "UPDATING"
CountdownText(last) ==
    LET elapsed   == now - last
        countdown == IF FETCH_INTERVAL - elapsed > 0 THEN FETCH_INTERVAL - elapsed ELSE 0
    IN  IF countdown > 0 THEN PadLeft(Digits(countdown), 2, "0") \o <<"S">>
        ELSE <<"U","P","D","A","T","I","N","G">>

MilitaryCount(contacts) ==
    Cardinality({i \in 1..Len(contacts) : contacts[i].is_military})

StatusInfo(contacts, st, last) ==
    << <<"S","T","A","T","U","S",":"," ">> \o StatusText(st),
       <<"C","O","N","T","A","C","T","S",":"," ">> \o Digits(Len(contacts))
          \o <<" ","(">> \o Digits(MilitaryCount(contacts)) \o <<" ","M","I","L",")">>,
       <<"R","A","N","G","E",":"," ">> \o Digits(RADIUS_NM) \o <<"N","M">>,
       <<"I","N","T","E","R","V","A","L",":"," ">> \o Digits(FETCH_INTERVAL) \o <<"S">>,
       <<"N","E","X","T"," ","U","P","D","A","T","E",":"," ">> \o CountdownText(last) >>

\* color = YELLOW if "UPDATING" in info else BRIGHT_GREEN
StatusKeys(contacts, st, last) ==
    LET info == StatusInfo(contacts, st, last)
    IN  [i \in 1..5 |->
            TextKey(info[i],
                    IF Contains(info[i], <<"U","P","D","A","T","I","N","G">>)
                    THEN "YELLOW" ELSE "BRIGHT_GREEN",
                    TABLE_FONT_SIZE)]

\* sorted() builds a new list and leaves its argument, the list that is
\* tracker.aircraft itself, as it is
ArgumentAfterSorted_InPlace(list) ==
    [i \in 1..Len(list) |-> SortedByDistance(list)[Len(list) + 1 - i]]
ArgumentAfterSorted(list) == list

\* the top of the loop: the events, then clear_old on every 300th frame (the
\* frame counter is not kept: any frame may be a 300th), then the header
FrameBegun ==
    /\ pcM = "events"
    /\ \E quit \in BOOLEAN : main_running' = ~quit
    /\ \E due \in BOOLEAN :
          LET tc0 == [cache |-> text_cache, order |-> access_order,
                      last_clear |-> text_last_clear]
              tc1 == IF due THEN ClearedIn(tc0) ELSE tc0
              tc2 == RenderIn([cache |-> tc1.cache, order |-> tc1.order], HeaderKey(now))
          IN  /\ text_cache' = tc2.cache
              /\ access_order' = tc2.order
              /\ text_last_clear' = tc1.last_clear
    /\ radarSeen' = None
    /\ pcM' = "radar"
    /\ UNCHANGED <<trackerVars, refreshVars, now, parseVars, batchVars>>
    /\ UNCHANGED <<enable_text_cache, max_size, text_call, text_stamp, text_calls,
                   coordVars, sortVars, staticVars>>

\* radar.draw(tracker.aircraft)
RadarDrawn ==
    /\ pcM = "radar"
    /\ radarSeen' = Some(aircraft)
    /\ IF ~enable_static_surface_cache
       THEN UNCHANGED <<radar_static, needs_rebuild>>
       ELSE IF MustBuild(needs_rebuild, radar_static)
       THEN /\ radar_static' = Some(DrawStatic(ScopeCenterX, ScopeCenterY, radar_size,
                                               static_call.builds + 1))
            /\ needs_rebuild' = FALSE
       ELSE UNCHANGED <<radar_static, needs_rebuild>>
    /\ \E blink_state \in {0, 1} :
          LET cc == ScreenPosAllIn([cache |-> coord_cache,
                                    last_update |-> coord_last_update,
                                    drawn |-> << >>], aircraft)
              tc == RenderAllIn([cache |-> text_cache, order |-> access_order],
                                RangeLabelKeys
                                   \o CallsignKeys(aircraft, cc.drawn, blink_state))
          IN  /\ coord_cache' = cc.cache
              /\ coord_last_update' = cc.last_update
              /\ text_cache' = tc.cache
              /\ access_order' = tc.order
    /\ pcM' = "table"
    /\ UNCHANGED <<trackerVars, refreshVars, main_running, now, parseVars, batchVars>>
    /\ UNCHANGED <<enable_text_cache, max_size, text_last_clear, text_call,
                   text_stamp, text_calls, enable_coordinate_cache, coord_call,
                   sortVars, enable_static_surface_cache, static_call>>

\* table.draw(tracker.aircraft, tracker.status, tracker.last_update); the
\* three arguments are read in this one step
TableDrawn ==
    /\ pcM = "table"
    /\ UpdateAircraft(aircraft)
    /\ aircraft' = IF sort_call'.resorted THEN ArgumentAfterSorted(aircraft)
                   ELSE aircraft
    /\ LET rows == get_sorted_aircraft(sorted_list', Some(MAX_TABLE_ROWS))
           tc   == RenderAllIn([cache |-> text_cache, order |-> access_order],
                               TableHeadKeys \o RowsKeys(rows)
                                  \o StatusKeys(aircraft, status, last_update))
       IN  /\ slice_call' = [called |-> TRUE, max_count |-> Some(MAX_TABLE_ROWS),
                             ret |-> rows]
           /\ text_cache' = tc.cache
           /\ access_order' = tc.order
    /\ pcM' = "flip"
    /\ UNCHANGED <<status, last_update, running, refreshVars, main_running,
                   radarSeen, now, parseVars, batchVars>>
    /\ UNCHANGED <<enable_text_cache, max_size, text_last_clear, text_call,
                   text_stamp, text_calls, coordVars, staticVars>>

--------------------------------------------------------------------------
(* Initial states *)

TrackerInit ==
    /\ aircraft = << >>
    /\ status = "INITIALISING"
    /\ last_update = 0
    /\ running = TRUE
    /\ pcR = "idle"
    /\ response = None
    /\ idx = 1
    /\ aircraft_list = << >>
    /\ liveAtTick = << >>
    /\ liveSrc = None
    /\ pcM = "start"
    /\ main_running = TRUE
    /\ radarSeen = None
    /\ now = 0

ParseIdle ==
    /\ parse_data = Raw(None, None, None, None, None, None, None)
    /\ parse_result = None

\* OptimizedTextCache.__init__(max_size)
TextCacheInit(enabled, size) ==
    /\ enable_text_cache = enabled
    /\ text_cache = EmptyDict
    /\ access_order = << >>
    /\ max_size = size
    /\ text_last_clear = 0
    /\ text_call = NoCall
    /\ text_stamp = EmptyDict
    /\ text_calls = 0

\* CoordinateCache.__init__()
CoordCacheInit(enabled) ==
    /\ enable_coordinate_cache = enabled
    /\ coord_cache = EmptyDict
    /\ coord_last_update = EmptyDict
    /\ coord_call = NoCoordCall

\* SortedAircraftManager.__init__()
SortInit ==
    /\ aircraft_dict = EmptyDict
    /\ sorted_list = << >>
    /\ needs_resort = TRUE
    /\ sort_call = NoSortCall
    /\ slice_call = NoSliceCall

\* StaticSurfaceCache.__init__(width, height)
StaticCacheInit(enabled) ==
    /\ enable_static_surface_cache = enabled
    /\ radar_static = None
    /\ needs_rebuild = TRUE
    /\ static_call = NoStaticCall

BatchIdle ==
    /\ use_numpy_batch_ops = TRUE
    /\ batch_positions = << >>
    /\ batch_result = None

CachesInit ==
    /\ TextCacheInit(TRUE, MaxTextCacheSize)
    /\ CoordCacheInit(TRUE)
    /\ SortInit
    /\ StaticCacheInit(TRUE)

--------------------------------------------------------------------------
(* The specifications *)

\* the refresh thread beside the render loop
Init == TrackerInit /\ ParseIdle /\ BatchIdle /\ CachesInit

Next ==
    \/ Refresh
    \/ StartTracker
    \/ FrameBegin
    \/ RadarDraw
    \/ TableDraw
    \/ FrameEnd
    \/ StopTracker
    \/ ProcessExit
    \/ Tick

Spec == Init /\ [][Next]_vars

\* parse_aircraft on every raw record
ParseInit ==
    /\ TrackerInit /\ BatchIdle /\ CachesInit
    /\ parse_data \in RawRecords
    /\ parse_result = None

ParseNext == ParseCall

ParseSpec == ParseInit /\ [][ParseNext]_vars

\* the glyph cache under any sequence of render and clear_old calls
TextInit ==
    /\ TrackerInit /\ ParseIdle /\ BatchIdle
    /\ CoordCacheInit(TRUE) /\ SortInit /\ StaticCacheInit(TRUE)
    /\ \E enabled \in BOOLEAN : TextCacheInit(enabled, MaxTextCacheSize)

TextNext == Render \/ ClearOld \/ TextElapse

TextSpec == TextInit /\ [][TextNext]_vars

\* the geometry cache under any sequence of get_screen_pos calls
CoordInit ==
    /\ TrackerInit /\ ParseIdle /\ BatchIdle
    /\ TextCacheInit(TRUE, MaxTextCacheSize) /\ SortInit /\ StaticCacheInit(TRUE)
    /\ \E enabled \in BOOLEAN : CoordCacheInit(enabled)

CoordNext == ScreenPosCall \/ CoordElapse

CoordSpec == CoordInit /\ [][CoordNext]_vars

\* the ordered view under any sequence of update_aircraft calls
SortSpecInit == TrackerInit /\ ParseIdle /\ BatchIdle /\ CachesInit

SortNext == Update \/ GetSorted

SortSpec == SortSpecInit /\ [][SortNext]_vars

\* the glyph cache of main(), holding the labels of about KeepCount contacts,
\* under any sequence of render and clear_old calls; its capacity is the
\* fallback of MAX_TEXT_CACHE_SIZE or a configured one just above KeepCount,
\* which the labels can fill
CompactInit ==
    /\ TrackerInit /\ ParseIdle /\ BatchIdle
    /\ CoordCacheInit(TRUE) /\ SortInit /\ StaticCacheInit(TRUE)
    /\ enable_text_cache = TRUE
    /\ max_size \in {MAX_TEXT_CACHE_SIZE, KeepCount + 1}
    /\ text_last_clear = 0
    /\ text_call = NoCall
    /\ text_calls = 0
    /\ \E n \in {KeepCount, KeepCount + 1, KeepCount + 2} :
          /\ n <= max_size
          /\ text_cache = LabelledCache(n)
          /\ access_order = LabelledOrder(n)
          /\ text_stamp = LabelledStamp(n)

CompactNext == RenderLabel \/ ClearOld \/ TextElapse

CompactSpec == CompactInit /\ [][CompactNext]_vars

\* the refresh thread beside the render loop, the frames driving the caches;
\* main() has rendered its two static texts before the loop
\* (the clock stands still here: which variables a step writes does not
\* depend on it)
FrameInit ==
    /\ TrackerInit /\ ParseIdle /\ BatchIdle
    /\ CoordCacheInit(TRUE) /\ SortInit /\ StaticCacheInit(TRUE)
    /\ enable_text_cache = TRUE
    /\ max_size = MaxTextCacheSize
    /\ text_last_clear = 0
    /\ text_call = NoCall
    /\ text_stamp = EmptyDict
    /\ text_calls = 0
    /\ LET tc == RenderAllIn([cache |-> EmptyDict, order |-> << >>], StaticTextKeys)
       IN  /\ text_cache = tc.cache
           /\ access_order = tc.order

\* the arrays a fetch returns beside the frames: the military contact, the
\* civil contact, both, or none
FrameResponses == {SubFeed(I) : I \in SUBSET {1, Len(Feed)}}

FrameRefresh ==
    /\ ThreadAlive
    /\ \/ LoopCheck
       \/ SetScanning
       \/ StampTick
       \/ FetchError
       \/ FetchFrom(FrameResponses)
       \/ ParseRecord
       \/ FetchReturn
       \/ ApplyFetch
       \/ SetStatus
       \/ Sleep

FrameNext ==
    \/ FrameRefresh
    \/ StartTracker
    \/ FrameBegun
    \/ RadarDrawn
    \/ TableDrawn
    \/ FrameEnd
    \/ StopTracker
    \/ ProcessExit

FrameSpec == FrameInit /\ [][FrameNext]_vars

\* the background cache under any sequence of get_radar_static calls
StaticInit ==
    /\ TrackerInit /\ ParseIdle /\ BatchIdle
    /\ TextCacheInit(TRUE, MaxTextCacheSize) /\ CoordCacheInit(TRUE) /\ SortInit
    /\ \E enabled \in BOOLEAN : StaticCacheInit(enabled)

StaticNext == StaticCall \/ StaticElapse

StaticSpec == StaticInit /\ [][StaticNext]_vars

\* batch_calculate_distances_bearings on every list of points, with the
\* batch flag either way
BatchInit ==
    /\ TrackerInit /\ ParseIdle /\ CachesInit
    /\ use_numpy_batch_ops \in BOOLEAN
    /\ batch_positions \in BatchInputs
    /\ batch_result = None

BatchNext == BatchCall

BatchSpec == BatchInit /\ [][BatchNext]_vars


--------------------------------------------------------------------------
(* What the claims speak of *)

\* a raw record RecordParser is to keep: it has a position within the radius
IsValidRaw(data) ==
    /\ data.lat # None
    /\ data.lon # None
    /\ calculate_distance_bearing(LAT, LON, data.lat[1], data.lon[1])[1]
           <= RADIUS_NM * DistUnit

\* the complete parsed result of a fetch that returned the array resp
ParsedRecords(resp) ==
    LET F[k \in 0..Len(resp)] ==
            IF k = 0 THEN << >>
            ELSE LET p == parse_aircraft(resp[k])
                 IN  IF p.value # None THEN Append(F[k - 1], p.value[1]) ELSE F[k - 1]
    IN  F[Len(resp)]

\* the refresh thread has finished a tick and sleeps
TickDone == pcR = "sleep"

\* the fetch of the finished tick failed, or held no valid record
FailedTick ==
    \/ response = None
    \/ \A i \in 1..Len(response[1]) : ~IsValidRaw(response[1][i])

Records(list) == {list[i] : i \in 1..Len(list)}

\* C1: after a tick whose fetch failed or yielded no valid record the status
\* is NO CONTACTS and the live set is the one that was live before the tick.
C1_FailureKeepsLastKnownGood ==
    (TickDone /\ FailedTick) =>
        (status = "NO CONTACTS" /\ aircraft = liveAtTick)

\* a failed tick has ended while contacts of an earlier tick were live
C1_Witness ==
    TickDone /\ FailedTick /\ liveAtTick # << >> /\ aircraft = liveAtTick

\* C2: after a tick whose fetch yielded one or more valid records the status
\* is ACTIVE and the live set is exactly the records parsed from that fetch;
\* an earlier record survives only if the new fetch holds it too.
C2_SuccessReplacesInFull ==
    (TickDone /\ ~FailedTick) =>
        /\ status = "ACTIVE"
        /\ aircraft = ParsedRecords(response[1])
        /\ \A a \in Records(liveAtTick) :
              a \in Records(aircraft) => a \in Records(ParsedRecords(response[1]))

\* a successful tick has replaced a live set none of whose records it holds
C2_Witness ==
    /\ TickDone /\ ~FailedTick
    /\ liveAtTick # << >>
    /\ Records(liveAtTick) \cap Records(aircraft) = {}

\* the live set a complete fetch of src leaves behind
Whole(src) == IF src = None THEN << >> ELSE ParsedRecords(src[1])

\* the render loop reads tracker.aircraft in this step
ReadsLive == pcM \in {"radar", "table"} /\ pcM' # pcM

\* C3: every read of the live set by the render loop sees the initial empty
\* list or the complete parsed result of one fetch, whatever the refresh
\* thread is doing at that moment.
C3_ReadsSeeWholeFetch ==
    [][ReadsLive => aircraft = Whole(liveSrc)]_vars

\* radar.draw was handed a non-empty list while fetch_data was part-way
\* through building a different one
C3_Witness ==
    /\ radarSeen # None
    /\ radarSeen[1] # << >>
    /\ pcR = "parse"
    /\ aircraft_list # << >>
    /\ aircraft_list # radarSeen[1]
    /\ idx <= Len(response[1])

\* C4: whatever the fetch returns, the refresh thread is never ended by an
\* error: every tick runs on to ACTIVE or NO CONTACTS and to the next tick.
C4_RefreshNeverDies == pcR # "dead"

StatusSteps ==
    { <<"INITIALISING", "SCANNING">>,
      <<"SCANNING", "ACTIVE">>, <<"SCANNING", "NO CONTACTS">>,
      <<"ACTIVE", "SCANNING">>, <<"NO CONTACTS", "SCANNING">> }

\* C5: the status starts as INITIALISING and changes only along
\* INITIALISING -> SCANNING -> {ACTIVE, NO CONTACTS} -> SCANNING.
C5_StatusMachine ==
    /\ status = "INITIALISING"
    /\ [][status' # status => <<status, status'>> \in StatusSteps]_vars

\* a later tick is scanning again after an earlier one went ACTIVE
C5_Witness == status = "SCANNING" /\ aircraft # << >> /\ pcR = "fetch"

AircraftFields ==
    {"hex_code", "callsign", "lat", "lon", "altitude", "speed", "track",
     "distance", "bearing", "is_military"}

\* C7: parse_aircraft never raises; it returns nothing exactly when lat or lon
\* is absent or the distance exceeds the radius, and a fully populated record
\* otherwise.
C7_ParseTotalAndDrops ==
    parse_result # None =>
        LET r == parse_result[1]
        IN  /\ ~r.raised
            /\ (r.value # None) <=> IsValidRaw(parse_data)
            /\ r.value # None => DOMAIN r.value[1] = AircraftFields

\* the render call of this step and its key
RenderStep == text_calls' = text_calls + 1
RenderedKey == text_call'.key[1]

\* C8: with the cache enabled and a capacity of at least 1, an insert that
\* takes the cache over its capacity evicts exactly one entry, the one whose
\* last access (insert or hit) is the oldest.
C8_EvictsLeastRecentlyUsed ==
    [][(/\ RenderStep
        /\ enable_text_cache
        /\ max_size >= 1
        /\ RenderedKey \notin DOMAIN text_cache
        /\ Cardinality(DOMAIN text_cache) + 1 > max_size)
       => \E e \in DOMAIN text_cache :
            /\ DOMAIN text_cache' = (DOMAIN text_cache \cup {RenderedKey}) \ {e}
            /\ \A k \in DOMAIN text_cache \ {e} :
                  text_stamp[e].acc < text_stamp[k].acc]_vars

\* an insert has evicted a key while a key inserted before it stays cached,
\* protected by a later lookup
C8_Witness ==
    /\ text_call.evicted # None
    /\ text_call.evictedStamp # None
    /\ \E k \in DOMAIN text_cache :
          /\ text_stamp[k].ins < text_call.evictedStamp[1].ins
          /\ text_stamp[k].acc > text_call.evictedStamp[1].acc

\* a get_screen_pos call is made in this step, for this identity
ScreenPosStep == coord_call' # coord_call
CalledId == coord_call'.id[1]

\* C9: with the cache enabled, a lookup for an identity whose entry is younger
\* than the TTL returns the memoized position, whatever the arguments, without
\* recomputing and without touching the cache.
C9_HitReturnsMemoized ==
    [][(/\ ScreenPosStep
        /\ enable_coordinate_cache
        /\ CalledId \in DOMAIN coord_cache
        /\ now - coord_last_update[CalledId] < COORDINATE_CACHE_TTL)
       => /\ coord_call'.ret = Some(coord_cache[CalledId])
          /\ ~coord_call'.computed
          /\ UNCHANGED <<coord_cache, coord_last_update>>]_vars

\* a later call within the TTL got the memoized off-display result although
\* its own arguments are on the display
C9_Witness ==
    /\ enable_coordinate_cache
    /\ coord_call.id # None
    /\ ~coord_call.computed
    /\ coord_call.ret = Some(None)
    /\ LET a == coord_call.args[1]
       IN  calculate_pos(a[1], a[2], a[3], a[4], a[5]) # None
    /\ now > coord_last_update[coord_call.id[1]]

Ids(list) == {list[i].hex_code : i \in 1..Len(list)}
DistanceIn(list, h) == (CHOOSE a \in Records(list) : a.hex_code = h).distance
PositionIn(list, a) == CHOOSE i \in 1..Len(list) : list[i] = a

\* the re-sort condition of the claim: the identity sets differ, or an
\* identity of both has moved by more than 0.5 NM
MustResort(S, P) ==
    \/ Ids(S) # DOMAIN P
    \/ \E h \in Ids(S) \cap DOMAIN P :
          2 * Abs(DistanceIn(S, h) - P[h].distance) > DistUnit

\* t holds the records of s in ascending distance, equal distances in the
\* order of s
IsStableSortOf(t, s) ==
    /\ Len(t) = Len(s)
    /\ Records(t) = Records(s)
    /\ \A i, j \in 1..Len(t) :
          i < j => \/ t[i].distance < t[j].distance
                   \/ /\ t[i].distance = t[j].distance
                      /\ PositionIn(s, t[i]) < PositionIn(s, t[j])

\* update_aircraft is called in this step, after an earlier call
LaterUpdateStep == sort_call' # sort_call /\ sort_call.nth >= 1

\* C10: on an update after a previous update, a full re-sort happens exactly
\* when the identity set differs or an identity has moved by more than
\* 0.5 NM; a re-sort leaves the records in ascending distance, ties in input
\* order.
C10_ResortDecision ==
    [][LaterUpdateStep =>
        /\ sort_call'.resorted <=> MustResort(sort_call'.input, aircraft_dict)
        /\ sort_call'.resorted => IsStableSortOf(sorted_list', sort_call'.input)]_vars

\* an update moved an identity by exactly 0.5 NM, none by more, and was not
\* re-sorted, so the view keeps an order that is no longer ascending
C10_Witness ==
    /\ sort_call.nth = 2
    /\ ~sort_call.resorted
    /\ 2 * sort_call.move = DistUnit
    /\ \E i, j \in 1..Len(sort_call.input) :
          /\ i < j
          /\ sort_call.input[i].distance > sort_call.input[j].distance
          /\ sorted_list[i].hex_code = sort_call.input[i].hex_code
          /\ sorted_list[j].hex_code = sort_call.input[j].hex_code

\* the identities of a list, in its order
IdSeq(list) == [i \in 1..Len(list) |-> list[i].hex_code]

\* the update of this step keeps the identity set and moves no identity by
\* more than 0.5 NM
QuietUpdate(S, P) ==
    /\ Ids(S) = DOMAIN P
    /\ \A h \in Ids(S) : 2 * Abs(DistanceIn(S, h) - P[h].distance) <= DistUnit

\* C11: an update with the same identity set in which no distance moves by
\* more than 0.5 NM leaves the sequence of identities that
\* get_sorted_aircraft returns, for every max_count, as it was before.
C11_HysteresisKeepsOrder ==
    [][(LaterUpdateStep /\ QuietUpdate(sort_call'.input, aircraft_dict))
       => \A max_count \in SliceCounts :
             IdSeq(get_sorted_aircraft(sorted_list', max_count))
                = IdSeq(get_sorted_aircraft(sorted_list, max_count))]_vars

\* after an update that moved an identity by 0.1 NM and none by more, the
\* view has been read again
C11_Witness ==
    /\ sort_call.nth = 2
    /\ sort_call.move = 1
    /\ ~sort_call.resorted
    /\ slice_call.called
    /\ Len(slice_call.ret) = 2

\* the first min(n, Len(list)) entries of a list
FirstN(list, n) == SubSeq(list, 1, IF n < Len(list) THEN n ELSE Len(list))

\* C12: get_sorted_aircraft(max_count) returns the first min(max_count, n)
\* entries of the current order for every max_count >= 0 that is given, and
\* all n entries when none is given.
C12_RankedSlice ==
    slice_call.called =>
        slice_call.ret = IF slice_call.max_count = None
                         THEN sorted_list
                         ELSE FirstN(sorted_list, slice_call.max_count[1])

\* get_radar_static is called in this step
StaticStep == static_call'.nth = static_call.nth + 1

\* C13: with the cache enabled, a get_radar_static call builds the surface
\* exactly when the rebuild flag is set or no surface exists, and leaves the
\* flag cleared; any other call returns the surface of the last build and
\* draws nothing; so the builds number the calls that found the flag set or
\* the surface missing, and time alone never builds.
C13_BuildsOnlyOnFlag ==
    /\ [][(StaticStep /\ enable_static_surface_cache)
          => /\ static_call'.built <=> (needs_rebuild \/ radar_static = None)
             /\ static_call'.built => /\ static_call'.builds = static_call.builds + 1
                                      /\ radar_static' # radar_static
             /\ ~static_call'.built => /\ static_call'.builds = static_call.builds
                                       /\ radar_static' = radar_static
                                       /\ static_call'.ret = radar_static
             /\ ~needs_rebuild'
             /\ static_call'.ret = radar_static'
             /\ static_call'.builds = static_call'.found]_vars
    /\ [][now' # now => UNCHANGED <<radar_static, needs_rebuild>>]_vars

\* a later call, made after time has passed and with another geometry, got
\* the surface of the one build
C13_Witness ==
    /\ enable_static_surface_cache
    /\ static_call.nth >= 3
    /\ ~static_call.built
    /\ static_call.builds = 1
    /\ static_call.at >= 2
    /\ static_call.ret # None
    /\ static_call.ret[1].serial = 1
    /\ static_call.ret[1].center # <<static_call.args[1][1], static_call.args[1][2]>>

\* the refresh thread is inside a tick: it has set SCANNING and has not yet
\* set ACTIVE or NO CONTACTS
MidTick == pcR \in {"stamp", "fetch", "parse", "apply", "status"}

\* C14: the tick in progress when the stop signal is set is not cut short; it
\* completes and applies its result before the refresh loop ends.
C14_StopLetsTickComplete == pcM = "exited" => ~MidTick

\* clear_old is called in this step (under CompactSpec: no render, no
\* passing of time)
ClearStep == text_calls' = text_calls /\ now' = now

C16_NeverOverCapacity ==
    enable_text_cache =>
        /\ Cardinality(DOMAIN text_cache) <= max_size
        /\ ~text_call.raised
        /\ text_call.key # None => text_call.ret = Some(FontRender(text_call.key[1]))

\* the cache was full, a render of a new key has evicted and returned its
\* surface, and the cache is full again
C16_Witness ==
    /\ enable_text_cache
    /\ text_call.evicted # None
    /\ text_call.ret # None
    /\ Cardinality(DOMAIN text_cache) = max_size
    /\ text_call.key[1] \in DOMAIN text_cache

\* C18: whichever way the batch flag is set, the batch call returns a list as
\* long as its input whose i-th element is calculate_distance_bearing of the
\* origin and the i-th point.
C18_BatchEqualsScalar ==
    batch_result # None =>
        /\ Len(batch_result[1]) = Len(batch_positions)
        /\ \A i \in 1..Len(batch_positions) :
              batch_result[1][i] =
                 calculate_distance_bearing(LAT, LON, batch_positions[i][1],
                                            batch_positions[i][2])

\* the identity called for has no entry, or one computed TTL or more ago
StaleOrAbsent(id) ==
    IF id \in DOMAIN coord_cache
    THEN now - coord_last_update[id] >= COORDINATE_CACHE_TTL
    ELSE TRUE

\* C19: with the cache enabled, a lookup for an identity with no entry or
\* with an entry computed TTL or more ago recomputes the position from its
\* own arguments, stores it and stamps it with now; a hit leaves the stamp;
\* so the position returned was computed less than TTL ago; and no lookup
\* changes or removes the entry of another identity.
C19_LazyExpiry ==
    [][(ScreenPosStep /\ enable_coordinate_cache)
       => LET a   == coord_call'.args[1]
              pos == calculate_pos(a[1], a[2], a[3], a[4], a[5])
          IN  /\ StaleOrAbsent(CalledId)
                    => /\ coord_call'.computed
                       /\ coord_call'.ret = Some(pos)
                       /\ CalledId \in DOMAIN coord_cache'
                       /\ coord_cache'[CalledId] = pos
                       /\ coord_last_update'[CalledId] = now
              /\ ~StaleOrAbsent(CalledId)
                    => coord_last_update'[CalledId] = coord_last_update[CalledId]
              /\ coord_call'.ret = Some(coord_cache'[CalledId])
              /\ now - coord_last_update'[CalledId] < COORDINATE_CACHE_TTL
              /\ \A j \in DOMAIN coord_cache \ {CalledId} :
                    /\ j \in DOMAIN coord_cache'
                    /\ coord_cache'[j] = coord_cache[j]
                    /\ coord_last_update'[j] = coord_last_update[j]]_vars

\* an entry has outlived the TTL and the next lookup for its identity has
\* recomputed it, while the entry of the other identity, as old, stays as it
\* was until it is looked up
C19_Witness ==
    /\ enable_coordinate_cache
    /\ coord_call.id # None
    /\ coord_call.had
    /\ coord_call.computed
    /\ coord_last_update[coord_call.id[1]] = now
    /\ \E j \in DOMAIN coord_cache :
          /\ j # coord_call.id[1]
          /\ now - coord_last_update[j] >= COORDINATE_CACHE_TTL

\* C20: after every update_aircraft(S) the records that get_sorted_aircraft()
\* returns are the records of S: the same identities, each with the field
\* values it has in S.
C20_ViewHoldsLatestRecords ==
    sort_call.nth >= 1 =>
        Records(get_sorted_aircraft(sorted_list, None)) = Records(sort_call.input)

\* a step of the refresh thread, and a step of a frame of the render loop
TickStep == refreshVars' # refreshVars
FramePositions == {"events", "radar", "table", "flip"}
FrameStep == pcM \in FramePositions /\ pcM' # pcM

\* C17: the two cadences write disjoint state: a step of the refresh thread
\* leaves the glyph cache, the geometry cache, the background cache and the
\* ordered view (and the run flag) as they are, so that it changes nothing
\* of the tracker but the live set, the status and the last-refresh
\* timestamp; a step of a render frame leaves these three as they are.
C17_CadencesWriteDisjointState ==
    [][ /\ TickStep =>
              UNCHANGED <<running,
                          text_cache, access_order, text_last_clear,
                          coord_cache, coord_last_update,
                          radar_static, needs_rebuild,
                          aircraft_dict, sorted_list, needs_resort>>
        /\ FrameStep => UNCHANGED <<aircraft, status, last_update>> ]_vars

\* frames have filled the four caches, and a tick has since replaced the
\* live set the ordered view was built from
C17_Witness ==
    /\ radar_static # None
    /\ DOMAIN coord_cache # {}
    /\ Len(access_order) = max_size
    /\ sorted_list # << >>
    /\ status = "ACTIVE"
    /\ Len(aircraft) # Len(sorted_list)

\* the distance of a record of the view in the set most recently supplied
LatestDistance(a) == aircraft_dict[a.hex_code].distance

\* C21: whenever a precedes b in the ranked view, a's distance in the most
\* recently supplied set is at most b's distance in that set plus 1.0 NM.
C21_BoundedDisorder ==
    \A i, j \in 1..Len(sorted_list) :
        i < j => LatestDistance(sorted_list[i]) <= LatestDistance(sorted_list[j]) + DistUnit

\* the step in which table.draw takes its arguments and draws
TableStep == pcM = "table" /\ pcM' = "flip"

\* C22: within one render frame the radar scope and the data table are drawn
\* from the same live set: the set the table reads is the set the radar read
\* earlier in the frame.
C22_FrameSeesOneLiveSet ==
    [][TableStep => radarSeen = Some(aircraft)]_vars

\* C23: in every state, status ACTIVE implies that the live set is not
\* empty; and a live set that is not empty never becomes empty again,
\* whatever later fetches return.
C23_ActiveMeansContacts ==
    /\ [](status = "ACTIVE" => aircraft # << >>)
    /\ [][aircraft # << >> => aircraft' # << >>]_vars

\* a tick after the live set was filled has fetched nothing and has ended:
\* the status is NO CONTACTS and the live set is still filled
C23_Witness ==
    /\ pcR = "sleep"
    /\ aircraft_list = << >>
    /\ status = "NO CONTACTS"
    /\ aircraft # << >>

\* the keys of the recency list
OrderKeys == {access_order[i] : i \in 1..Len(access_order)}

\* C24: with the cache enabled, after every render or clear_old call the
\* recency list holds no key twice and holds exactly the keys of the cache
\* map; no call fails on a key missing from the list or from the map.
C24_OrderMatchesMap ==
    enable_text_cache =>
        /\ Cardinality(OrderKeys) = Len(access_order)
        /\ OrderKeys = DOMAIN text_cache
        /\ ~text_call.raised

\* a compaction has trimmed the cache, and a later insert into the full
\* cache has evicted the oldest key
C24_Witness ==
    /\ enable_text_cache
    /\ text_last_clear > ClearAge
    /\ text_call.evicted # None
    /\ text_call.evicted[1] \notin DOMAIN text_cache
    /\ Cardinality(DOMAIN text_cache) = max_size

==========================================================================
